---- MODULE Spec2Model ----
(***************************************************************************)
(* Alert store of the phishing dashboard: the reducer of AlertContext, the *)
(* provider's persistence and daily clean-up effects, and the creator      *)
(* helpers, and the notification surface of AlertNotification that shows   *)
(* the urgent unread alerts.  Time is counted in seconds since the page's  *)
(* epoch; an ISO timestamp is the pair <<day, second of day>>.             *)
(***************************************************************************)
EXTENDS Integers, Sequences, FiniteSets, TLC

VARIABLES alerts, unreadCount, storage, now, last,
          visibleAlerts, timers, observed, fatal, cleanupDue

vars == <<alerts, unreadCount, storage, now, last,
          visibleAlerts, timers, observed, fatal, cleanupDue>>

(***************************************************************************)
(* Bounds of the exploration                                               *)
(***************************************************************************)
\* the clock of SpecSweep stops after this many days
MaxSweepDays == 32
\* the callers of SpecSweep stop adding when the store holds this many records
MaxSweepStore == 1
\* the callers stop adding when the store holds this many records (Spec)
MaxStore == 2
\* the callers stop adding when the unread counter shows this much (Spec)
MaxUnread == 3
\* number of clock steps the cap scenario takes (SpecCap)
MaxCapSteps == 101
\* the callers stop adding while this many timeouts are pending (SpecNotify)
MaxTimers == 2

(***************************************************************************)
(* Program constants                                                       *)
(***************************************************************************)
MAX_ALERTS == 100
DEDUP_MS == 60000
RETENTION_DAYS == 30

SecondsPerDay == 24 * 60 * 60
DedupWindow == DEDUP_MS \div 1000
RetentionWindow == RETENTION_DAYS * SecondsPerDay

\* the values Math.random() is seen to take: two draws are equal or differ
RandomValues == {0, 1}

\* Date.now() + Math.random(): the clock reading with the draw as its fraction
NewId(t, r) == t * Cardinality(RandomValues) + r

(***************************************************************************)
(* Values                                                                  *)
(***************************************************************************)
\* a localStorage item is << >> when the key was never written (getItem
\* returns null) and <<text>> when it holds text
NoItem == << >>
Undefined == "undefined"

Range(s) == {s[i] : i \in 1..Len(s)}

\* rec.f of JavaScript: undefined when the property is missing
Get(rec, f) == IF f \in DOMAIN rec THEN rec[f] ELSE Undefined

\* the spread written the other way round, { ...payload, ...defaults }
Spread_DefaultsWin(defaults, payload) ==
    [f \in (DOMAIN defaults) \cup (DOMAIN payload) |->
        IF f \in DOMAIN defaults THEN defaults[f] ELSE payload[f]]

\* { ...defaults, ...payload }: the payload's properties win
Spread(defaults, payload) ==
    [f \in (DOMAIN defaults) \cup (DOMAIN payload) |->
        IF f \in DOMAIN payload THEN payload[f] ELSE defaults[f]]

\* new Date(t).toISOString(): date part and time-of-day part
ToISOString(t) == <<t \div SecondsPerDay, t % SecondsPerDay>>

\* new Date(iso).getTime()
ParseISO(iso) == iso[1] * SecondsPerDay + iso[2]

\* slice with its end one too far
Slice_OneTooMany(s, from, to) ==
    IF to + 1 >= Len(s) THEN SubSeq(s, from + 1, Len(s))
    ELSE SubSeq(s, from + 1, to + 1)

\* Array.prototype.slice(from, to) with 0 <= from <= to
Slice(s, from, to) ==
    IF to >= Len(s) THEN SubSeq(s, from + 1, Len(s)) ELSE SubSeq(s, from + 1, to)

(***************************************************************************)
(* Creator helpers                                                         *)
(***************************************************************************)
createPhishingAlert(content, type, riskLevel, details) ==
    [type |-> "phishing_detected",
     title |-> <<"Phishing", type, "Detected">>,
     content |-> content,
     riskLevel |-> riskLevel,
     severity |-> IF riskLevel = "critical" THEN "critical"
                  ELSE IF riskLevel = "high" THEN "high" ELSE "medium",
     details |-> details]

createSecurityAlert(title, content, severity, details) ==
    [type |-> "security_warning",
     title |-> title,
     content |-> content,
     severity |-> severity,
     details |-> details]

createSystemAlert(title, content, type, details) ==
    [type |-> "system_notification",
     title |-> title,
     content |-> content,
     severity |-> type,
     details |-> details]

(***************************************************************************)
(* JSON.stringify / JSON.parse of the alerts array                         *)
(***************************************************************************)
KeyOrder == <<"id", "timestamp", "read", "type", "title", "content",
              "riskLevel", "severity", "details">>

\* one object as the sequence of its "key": value members
StringifyObject(rec) ==
    LET present == SelectSeq(KeyOrder, LAMBDA k : k \in DOMAIN rec)
    IN  [i \in 1..Len(present) |-> <<present[i], rec[present[i]]>>]

ParseObject(members) ==
    [k \in {members[i][1] : i \in 1..Len(members)} |->
        (CHOOSE m \in Range(members) : m[1] = k)[2]]

JSONstringify(arr) == [i \in 1..Len(arr) |-> StringifyObject(arr[i])]

JSONparse(text) == [i \in 1..Len(text) |-> ParseObject(text[i])]

(***************************************************************************)
(* The reducer.  A state is [alerts, unreadCount]; t is Date.now() and r   *)
(* the value of Math.random() at the time the action is reduced.           *)
(***************************************************************************)
initialState(item) ==
    [alerts |-> JSONparse(IF item = NoItem THEN JSONstringify(<< >>) ELSE item[1]),
     unreadCount |-> 0]

\* the duplicate test with its time comparison turned round
existingAlert_Reversed(state, newAlert, t) ==
    \E i \in 1..Len(state.alerts) :
        /\ Get(state.alerts[i], "content") = Get(newAlert, "content")
        /\ Get(state.alerts[i], "type") = Get(newAlert, "type")
        /\ ParseISO(state.alerts[i].timestamp) < t - DedupWindow

\* the duplicate test of ADD_ALERT: same content, same type, within the last minute
existingAlert(state, newAlert, t) ==
    \E i \in 1..Len(state.alerts) :
        /\ Get(state.alerts[i], "content") = Get(newAlert, "content")
        /\ Get(state.alerts[i], "type") = Get(newAlert, "type")
        /\ ParseISO(state.alerts[i].timestamp) > t - DedupWindow

reduceADD_ALERT(state, payload, t, r) ==
    LET newAlert == Spread([id |-> NewId(t, r),
                            timestamp |-> ToISOString(t),
                            read |-> FALSE], payload)
    IN  IF existingAlert(state, newAlert, t)
        THEN state
        ELSE [alerts |-> Slice(<<newAlert>> \o state.alerts, 0, MAX_ALERTS),
              unreadCount |-> state.unreadCount + 1]

reduceREMOVE_ALERT(state, alertId) ==
    LET filteredAlerts == SelectSeq(state.alerts, LAMBDA a : a.id # alertId)
        removedUnread == \E i \in 1..Len(state.alerts) :
                            /\ state.alerts[i].id = alertId
                            /\ \A j \in 1..(i - 1) : state.alerts[j].id # alertId
                            /\ ~state.alerts[i].read
    IN  [alerts |-> filteredAlerts,
         unreadCount |-> IF removedUnread THEN state.unreadCount - 1
                         ELSE state.unreadCount]

\* CLEAR_ALERTS that forgets to reset the counter
reduceCLEAR_ALERTS_KeepsCount(state) ==
    [alerts |-> << >>, unreadCount |-> state.unreadCount]

reduceCLEAR_ALERTS(state) == [alerts |-> << >>, unreadCount |-> 0]

\* MARK_AS_READ that counts down for any record of that id, read or not
reduceMARK_AS_READ_AnyRecord(state, alertId) ==
    LET readAlerts == [i \in 1..Len(state.alerts) |->
                          IF state.alerts[i].id = alertId
                          THEN [state.alerts[i] EXCEPT !.read = TRUE]
                          ELSE state.alerts[i]]
        wasThere == \E i \in 1..Len(state.alerts) : state.alerts[i].id = alertId
    IN  [alerts |-> readAlerts,
         unreadCount |-> IF wasThere THEN state.unreadCount - 1
                         ELSE state.unreadCount]

\* MARK_AS_READ that flips the flag instead of setting it
reduceMARK_AS_READ_Toggle(state, alertId) ==
    LET readAlerts == [i \in 1..Len(state.alerts) |->
                          IF state.alerts[i].id = alertId
                          THEN [state.alerts[i] EXCEPT !.read = ~@]
                          ELSE state.alerts[i]]
        wasUnread == \E i \in 1..Len(state.alerts) :
                        state.alerts[i].id = alertId /\ ~state.alerts[i].read
    IN  [alerts |-> readAlerts,
         unreadCount |-> IF wasUnread THEN state.unreadCount - 1
                         ELSE state.unreadCount]

reduceMARK_AS_READ(state, alertId) ==
    LET readAlerts == [i \in 1..Len(state.alerts) |->
                          IF state.alerts[i].id = alertId
                          THEN [state.alerts[i] EXCEPT !.read = TRUE]
                          ELSE state.alerts[i]]
        wasUnread == \E i \in 1..Len(state.alerts) :
                        state.alerts[i].id = alertId /\ ~state.alerts[i].read
    IN  [alerts |-> readAlerts,
         unreadCount |-> IF wasUnread THEN state.unreadCount - 1
                         ELSE state.unreadCount]

\* recentAlerts.forEach(alert => dispatch(ADD_ALERT, alert)) for the indices
\* lo..hi, in index order: the reducer runs over the first half of the range
\* and, from the state that leaves, over the second half
RECURSIVE dispatchAll(_, _, _, _, _)
dispatchAll(state, recentAlerts, lo, hi, t) ==
    IF lo > hi THEN state
    ELSE IF lo = hi THEN reduceADD_ALERT(state, recentAlerts[lo], t, 0)
    ELSE LET mid == (lo + hi) \div 2
         IN  CHOOSE result \in
                 { dispatchAll(firstHalf, recentAlerts, mid + 1, hi, t) :
                     firstHalf \in {dispatchAll(state, recentAlerts, lo, mid, t)} } :
                 TRUE

\* the clean-up with a cut-off of 31 days (a month taken for 30 days)
cleanup_MonthAgo(state, t) ==
    LET monthAgo == t - RetentionWindow - SecondsPerDay
        recentAlerts == SelectSeq(state.alerts,
                            LAMBDA a : ParseISO(a.timestamp) > monthAgo)
    IN  IF Len(recentAlerts) < Len(state.alerts)
        THEN dispatchAll(reduceCLEAR_ALERTS(state), recentAlerts,
                         1, Len(recentAlerts), t)
        ELSE state

\* the body of the daily clean-up callback; the 30 calendar days of setDate
\* are taken as 30 * 24 hours (no daylight-saving shift inside the window)
cleanup(state, t) ==
    LET thirtyDaysAgo == t - RetentionWindow
        recentAlerts == SelectSeq(state.alerts,
                            LAMBDA a : ParseISO(a.timestamp) > thirtyDaysAgo)
    IN  IF Len(recentAlerts) < Len(state.alerts)
        THEN dispatchAll(reduceCLEAR_ALERTS(state), recentAlerts,
                         1, Len(recentAlerts), t)
        ELSE state

(***************************************************************************)
(* The provider: the store, its persisted copy, the clock, and a record of *)
(* the operation that led to the current state.                            *)
(***************************************************************************)
State == [alerts |-> alerts, unreadCount |-> unreadCount]

NoPayload == [type |-> "none"]

\* dispatch with the write made before the state is updated: the text
\* written is that of the array before the operation
Dispatch_WriteFirst(name, payload, id, st) ==
    /\ alerts' = st.alerts
    /\ unreadCount' = st.unreadCount
    /\ storage' = <<JSONstringify(alerts)>>
    /\ last' = [op |-> name, payload |-> payload, id |-> id,
                changed |-> (st # State)]
    /\ UNCHANGED now

\* dispatch: commit the reduced state st; the persist effect then writes the
\* new array.  last names the operation and tells whether it changed the store.
Dispatch(name, payload, id, st) ==
    /\ alerts' = st.alerts
    /\ unreadCount' = st.unreadCount
    /\ storage' = <<JSONstringify(st.alerts)>>
    /\ last' = [op |-> name, payload |-> payload, id |-> id,
                changed |-> (st # State)]
    /\ UNCHANGED now

\* no uncaught error has stopped the app
NoError == "none"

\* what the effects have seen: the texts the persist effect wrote during the
\* last operation, the records the notification surface promoted during it,
\* the number of times it played its sound, and the notifications dismissed
\* so far
NothingObserved ==
    [writes |-> << >>, promoted |-> << >>, cues |-> 0, dismissed |-> {}]

\* the time at which an interval set at time t next calls cleanup
setInterval(t) == t + SecondsPerDay

\* the provider has mounted on a fresh profile; its persist effect has run
\* and its clean-up effect has set the daily interval
Init ==
    /\ storage = <<JSONstringify(initialState(NoItem).alerts)>>
    /\ alerts = initialState(NoItem).alerts
    /\ unreadCount = initialState(NoItem).unreadCount
    /\ now = 0
    /\ last = [op |-> "init", payload |-> NoPayload, id |-> -1, changed |-> FALSE]
    /\ visibleAlerts = << >>
    /\ timers = << >>
    /\ observed = NothingObserved
    /\ fatal = NoError
    /\ cleanupDue = setInterval(0)

addAlert(payload, r) ==
    Dispatch("add", payload, -1, reduceADD_ALERT(State, payload, now, r))

removeAlert(alertId) ==
    Dispatch("remove", NoPayload, alertId, reduceREMOVE_ALERT(State, alertId))

clearAlerts ==
    Dispatch("clear", NoPayload, -1, reduceCLEAR_ALERTS(State))

markAsRead(alertId) ==
    Dispatch("markRead", NoPayload, alertId, reduceMARK_AS_READ(State, alertId))

Cleanup ==
    Dispatch("sweep", NoPayload, -1, cleanup(State, now))

\* the page is reloaded: the module is evaluated again and the provider mounts
Restart ==
    Dispatch("restart", NoPayload, -1, initialState(storage))

Tick(t) ==
    /\ t > now
    /\ now' = t
    /\ last' = [op |-> "tick", payload |-> NoPayload, id |-> -1, changed |-> FALSE]
    /\ UNCHANGED <<alerts, unreadCount, storage>>

\* the store seen by itself: the notification surface's calls into it are the
\* markAsRead calls of Next, no effect fails, and the daily interval is not
\* followed on the clock (its callback may run at any time)
StoreAlone == UNCHANGED <<visibleAlerts, timers, observed, fatal, cleanupDue>>

(***************************************************************************)
(* Spec: a few callers, a clock that visits the edges of both windows      *)
(***************************************************************************)
Candidates ==
    { createPhishingAlert("a", "Text", "critical", << >>),
      createSystemAlert(<<"Notice">>, "a", "info", << >>) }

\* the clock visits both sides of the dedup window's edge and a time half a
\* minute past the retention window
TimePoints == {0, 1, DedupWindow, RetentionWindow + DedupWindow \div 2}

StoredIds == {alerts[i].id : i \in 1..Len(alerts)}

AbsentId == -1

Next ==
    \/ \E p \in Candidates, r \in RandomValues :
          /\ Len(alerts) < MaxStore
          /\ unreadCount < MaxUnread
          /\ addAlert(p, r)
          /\ StoreAlone
    \/ \E id \in StoredIds \cup {AbsentId} : removeAlert(id) /\ StoreAlone
    \/ clearAlerts /\ StoreAlone
    \/ \E id \in StoredIds \cup {AbsentId} : markAsRead(id) /\ StoreAlone
    \/ Cleanup /\ StoreAlone
    \/ Restart /\ StoreAlone
    \/ \E t \in TimePoints : Tick(t) /\ StoreAlone

Spec == Init /\ [][Next]_vars

(***************************************************************************)
(* SpecCap: one caller adds an alert at every clock step until the store   *)
(* is full; the other operations act on the full store.  A hundred steps   *)
(* span the retention window, so the first record comes of age when the    *)
(* store is full.                                                          *)
(***************************************************************************)
CapCandidate == createSecurityAlert(<<"Warning">>, "b", "high", << >>)

CapStep == RetentionWindow \div MAX_ALERTS

CreatedAt(a) == ParseISO(a.timestamp)

CapNext ==
    \/ /\ IF alerts = << >> THEN TRUE ELSE CreatedAt(alerts[1]) # now
       /\ addAlert(CapCandidate, 0)
       /\ StoreAlone
    \/ /\ alerts # << >>
       /\ CreatedAt(alerts[1]) = now
       /\ now < MaxCapSteps * CapStep
       /\ Tick(now + CapStep)
       /\ StoreAlone
    \/ /\ Len(alerts) >= MAX_ALERTS - 1
       /\ markAsRead(alerts[Len(alerts)].id)
       /\ StoreAlone
    \/ /\ Len(alerts) = MAX_ALERTS
       /\ removeAlert(alerts[1].id)
       /\ StoreAlone
    \/ /\ Len(alerts) = MAX_ALERTS
       /\ clearAlerts
       /\ StoreAlone
    \/ /\ Len(alerts) = MAX_ALERTS
       /\ Cleanup
       /\ StoreAlone
    \/ /\ Len(alerts) = MAX_ALERTS
       /\ Restart
       /\ StoreAlone

SpecCap == Init /\ [][CapNext]_vars

(***************************************************************************)
(* The notification surface (AlertNotification) and the unread feed.       *)
(* visibleAlerts is the component's state: the alert objects it shows, as  *)
(* they were when promoted.  timers are the pending auto-dismiss timeouts, *)
(* each the id it will dismiss; they all wait the same 5000 ms, so they    *)
(* fire in the order they were set.                                        *)
(***************************************************************************)
\* the effects' view of one operation: the surface's state, and what was
\* promoted and written so far during the operation
Effects == [visible |-> visibleAlerts, timers |-> timers,
            promoted |-> << >>, writes |-> << >>, cues |-> 0]

\* the sound effect, run when visibleAlerts has changed: play the sound when a
\* critical alert or a phishing detection is shown
soundEffect(eff) ==
    LET criticalAlerts == SelectSeq(eff.visible, LAMBDA v :
                              \/ Get(v, "severity") = "critical"
                              \/ Get(v, "type") = "phishing_detected")
    IN  IF Len(criticalAlerts) > 0 THEN [eff EXCEPT !.cues = @ + 1] ELSE eff

\* the filter that shows unread records of any severity as notifications
newAlerts_AnyUnread(als, visible) ==
    SelectSeq(als, LAMBDA a :
        /\ ~a.read
        /\ ~(\E j \in 1..Len(visible) : visible[j].id = a.id))

\* the unread, not yet shown, urgent alerts
newAlerts(als, visible) ==
    SelectSeq(als, LAMBDA a :
        /\ ~a.read
        /\ ~(\E j \in 1..Len(visible) : visible[j].id = a.id)
        /\ \/ Get(a, "severity") = "critical"
           \/ Get(a, "severity") = "high"
           \/ Get(a, "type") = "phishing_detected")

\* the promotion effect, run on the array als: show the new alerts and set a
\* timeout for each.  Its update of visibleAlerts runs the sound effect, and
\* itself once more, and then nothing is new.
promotionEffect(als, eff) ==
    LET new == newAlerts(als, eff.visible)
    IN  IF Len(new) > 0
        THEN soundEffect(
                 [eff EXCEPT !.visible = eff.visible \o new,
                             !.timers = eff.timers \o [i \in 1..Len(new) |-> new[i].id],
                             !.promoted = eff.promoted \o new])
        ELSE eff

\* the persist effect, run on the array als (a write of the text already
\* stored is not told apart from no write)
persistEffect(als, eff) ==
    [eff EXCEPT !.writes = Append(eff.writes, JSONstringify(als))]

\* the effects that follow a commit of the array als
afterCommit(als, eff) == persistEffect(als, promotionEffect(als, eff))

\* setVisibleAlerts(prev => prev.filter(alert => alert.id !== alertId))
withoutNotification(visible, alertId) ==
    SelectSeq(visible, LAMBDA v : v.id # alertId)

\* dismissNotification whose two updates are rendered together, as in a click
\* handler, or in a timeout under a root that batches every update
dismissNotification(state, eff, alertId) ==
    LET st == reduceMARK_AS_READ(state, alertId)
    IN  [state |-> st,
         eff |-> afterCommit(st.alerts,
                     soundEffect([eff EXCEPT !.visible =
                                     withoutNotification(eff.visible, alertId)]))]

\* dismissNotification in a timeout under a root that renders each update of a
\* timeout by itself: the shortened visibleAlerts is rendered, the promotion
\* effect of that render runs when the MARK_AS_READ dispatch arrives and
\* still sees the alert unread, then the dispatch is rendered
dismissNotificationUnbatched(state, eff, alertId) ==
    LET shortened == [eff EXCEPT !.visible = withoutNotification(eff.visible, alertId)]
        observedUnread == promotionEffect(state.alerts, soundEffect(shortened))
        st == reduceMARK_AS_READ(state, alertId)
    IN  [state |-> st, eff |-> afterCommit(st.alerts, observedUnread)]

\* recentAlerts.forEach(alert => dispatch(ADD_ALERT, alert)) from index i on,
\* each dispatch rendered by itself and followed by the effects
RECURSIVE dispatchEach(_, _, _, _)
dispatchEach(res, recentAlerts, i, t) ==
    IF i > Len(recentAlerts) THEN res
    ELSE LET st == reduceADD_ALERT(res.state, recentAlerts[i], t, 0)
         IN  dispatchEach([state |-> st, eff |-> afterCommit(st.alerts, res.eff)],
                          recentAlerts, i + 1, t)

\* the clean-up callback under a root that batches every update: one render
\* of the final state
cleanupBatched(state, eff, t) ==
    LET st == cleanup(state, t)
    IN  [state |-> st, eff |-> afterCommit(st.alerts, eff)]

\* the clean-up callback under a root that renders each dispatch of an
\* interval callback by itself
cleanupUnbatched(state, eff, t) ==
    LET thirtyDaysAgo == t - RetentionWindow
        recentAlerts == SelectSeq(state.alerts,
                            LAMBDA a : ParseISO(a.timestamp) > thirtyDaysAgo)
        cleared == reduceCLEAR_ALERTS(state)
    IN  IF Len(recentAlerts) < Len(state.alerts)
        THEN dispatchEach([state |-> cleared,
                           eff |-> afterCommit(cleared.alerts, eff)],
                          recentAlerts, 1, t)
        ELSE [state |-> state, eff |-> afterCommit(state.alerts, eff)]

\* the feed's filter (RealTimeAlerts)
filteredAlerts(als, filter, showUnreadOnly) ==
    SelectSeq(als, LAMBDA a :
        IF showUnreadOnly /\ a.read THEN FALSE
        ELSE IF filter = "all" THEN TRUE
        ELSE IF filter = "phishing" THEN Get(a, "type") = "phishing_detected"
        ELSE IF filter = "security" THEN Get(a, "type") = "security_warning"
        ELSE IF filter = "system" THEN Get(a, "type") = "system_notification"
        ELSE IF filter = "critical" THEN Get(a, "severity") = "critical"
        ELSE IF filter = "high" THEN Get(a, "severity") = "high"
        ELSE TRUE)

\* the alert object as it was when new
AsAdded(a) == [a EXCEPT !.read = FALSE]

\* commit the outcome res = [state, eff] of an operation of the mounted app;
\* dis are the notifications dismissed so far, of which those are remembered
\* whose record is still stored
Rendered(name, payload, id, res, dis) ==
    /\ Dispatch(name, payload, id, res.state)
    /\ visibleAlerts' = res.eff.visible
    /\ timers' = res.eff.timers
    /\ observed' = [writes |-> res.eff.writes,
                    promoted |-> res.eff.promoted,
                    cues |-> res.eff.cues,
                    dismissed |-> {d \in dis :
                        \E i \in 1..Len(res.state.alerts) :
                            AsAdded(res.state.alerts[i]) = d}]
    /\ UNCHANGED <<fatal, cleanupDue>>

\* an operation of the store with the effects that follow its render
StoreOp(name, payload, id, st) ==
    Rendered(name, payload, id,
             [state |-> st, eff |-> afterCommit(st.alerts, Effects)],
             observed.dismissed)

\* the notifications which a dismissal of alertId takes off the surface
dismissedWith(alertId) ==
    observed.dismissed \cup {v \in Range(visibleAlerts) : v.id = alertId}

\* a click on one of a notification's buttons
handleNotificationAction(alertId) ==
    Rendered("dismiss", NoPayload, alertId,
             dismissNotification(State, Effects, alertId),
             dismissedWith(alertId))

\* the oldest pending timeout fires
TimeoutBatched ==
    /\ timers # << >>
    /\ Rendered("timeout", NoPayload, Head(timers),
                dismissNotification(State, [Effects EXCEPT !.timers = Tail(timers)],
                                    Head(timers)),
                dismissedWith(Head(timers)))

TimeoutUnbatched ==
    /\ timers # << >>
    /\ Rendered("timeout", NoPayload, Head(timers),
                dismissNotificationUnbatched(State,
                    [Effects EXCEPT !.timers = Tail(timers)], Head(timers)),
                dismissedWith(Head(timers)))

\* the daily interval fires
IntervalBatched ==
    Rendered("sweep", NoPayload, -1, cleanupBatched(State, Effects, now),
             observed.dismissed)

IntervalUnbatched ==
    Rendered("sweep", NoPayload, -1, cleanupUnbatched(State, Effects, now),
             observed.dismissed)

\* the page is reloaded: the timeouts are gone, the surface mounts empty and
\* its effect runs on the loaded alerts
Reload ==
    LET st == initialState(storage)
    IN  Rendered("restart", NoPayload, -1,
                 [state |-> st,
                  eff |-> afterCommit(st.alerts,
                              [visible |-> << >>, timers |-> << >>,
                               promoted |-> << >>, writes |-> << >>,
                               cues |-> 0])],
                 observed.dismissed)

Passes(t) ==
    /\ Tick(t)
    /\ observed' = [observed EXCEPT !.writes = << >>, !.promoted = << >>,
                                    !.cues = 0]
    /\ UNCHANGED <<visibleAlerts, timers, fatal, cleanupDue>>

(***************************************************************************)
(* SpecNotify: the store with the notification surface mounted             *)
(***************************************************************************)
NotifyCandidates ==
    { createPhishingAlert("a", "Text", "low", << >>),
      createSecurityAlert(<<"Warning">>, "b", "high", << >>),
      createSystemAlert(<<"Notice">>, "c", "info", << >>) }

NotifyTimePoints == {RetentionWindow + DedupWindow \div 2}

VisibleIds == {visibleAlerts[i].id : i \in 1..Len(visibleAlerts)}

NotifyNext ==
    \/ \E p \in NotifyCandidates, r \in RandomValues :
          /\ Len(alerts) < MaxStore
          /\ unreadCount < MaxUnread
          /\ Len(timers) < MaxTimers
          /\ StoreOp("add", p, -1, reduceADD_ALERT(State, p, now, r))
    \/ \E id \in StoredIds :
          StoreOp("remove", NoPayload, id, reduceREMOVE_ALERT(State, id))
    \/ StoreOp("clear", NoPayload, -1, reduceCLEAR_ALERTS(State))
    \/ \E id \in StoredIds :
          StoreOp("markRead", NoPayload, id, reduceMARK_AS_READ(State, id))
    \/ \E id \in VisibleIds : handleNotificationAction(id)
    \/ TimeoutBatched
    \/ TimeoutUnbatched
    \/ IntervalBatched
    \/ IntervalUnbatched
    \/ Reload
    \/ \E t \in NotifyTimePoints : Passes(t)

SpecNotify == Init /\ [][NotifyNext]_vars

(***************************************************************************)
(* SpecFaults: the store with a storage that can fail and callers that can *)
(* pass an incomplete alert.  No error boundary encloses the provider      *)
(* (App), so an error thrown by an effect takes the whole tree down; fatal *)
(* names the uncaught error that stopped the app.                          *)
(***************************************************************************)
\* the stored text cut off inside its first object: [{"id"
Truncated == << << <<"id">> >> >>

\* JSON.parse throws a SyntaxError on a text with a member that is no
\* "key": value pair
SyntaxError(text) ==
    \E i \in 1..Len(text) : \E k \in 1..Len(text[i]) : Len(text[i][k]) # 2

\* the evaluation of initialState throws
initialStateThrows(item) == item # NoItem /\ SyntaxError(item[1])

\* an operation whose render is followed by the persist effect; setItem
\* either stores the text or throws (quota exceeded, storage disabled), and
\* nothing catches what it throws
Persisted(name, payload, id, st, stored) ==
    /\ fatal = NoError
    /\ IF stored
       THEN Dispatch(name, payload, id, st) /\ UNCHANGED fatal
       ELSE /\ alerts' = st.alerts
            /\ unreadCount' = st.unreadCount
            /\ last' = [op |-> name, payload |-> payload, id |-> id,
                        changed |-> (st # State)]
            /\ fatal' = "QuotaExceededError"
            /\ UNCHANGED <<storage, now>>
    /\ UNCHANGED <<visibleAlerts, timers, observed, cleanupDue>>

\* the page is loaded: the module's initialState is evaluated, the provider
\* mounts and its persist effect runs.  When JSON.parse throws, the module
\* fails to load and there is no store (shown as an empty one, with the error).
LoadPage(stored) ==
    IF initialStateThrows(storage)
    THEN /\ alerts' = << >>
         /\ unreadCount' = 0
         /\ last' = [op |-> "restart", payload |-> NoPayload, id |-> -1,
                     changed |-> (alerts # << >> \/ unreadCount # 0)]
         /\ fatal' = "SyntaxError"
         /\ UNCHANGED <<storage, now, visibleAlerts, timers, observed, cleanupDue>>
    ELSE LET st == initialState(storage)
         IN  IF stored
             THEN /\ Dispatch("restart", NoPayload, -1, st)
                  /\ fatal' = NoError
                  /\ UNCHANGED <<visibleAlerts, timers, observed, cleanupDue>>
             ELSE /\ alerts' = st.alerts
                  /\ unreadCount' = st.unreadCount
                  /\ last' = [op |-> "restart", payload |-> NoPayload, id |-> -1,
                              changed |-> (st # State)]
                  /\ fatal' = "QuotaExceededError"
                  /\ UNCHANGED <<storage, now, visibleAlerts, timers, observed, cleanupDue>>

\* the stored item is removed (site data cleared) or damaged outside the app
StorageChanged(item) ==
    /\ storage # item
    /\ storage' = item
    /\ last' = [op |-> "storage", payload |-> NoPayload, id |-> -1,
                changed |-> FALSE]
    /\ UNCHANGED <<alerts, unreadCount, now, visibleAlerts, timers, observed, fatal, cleanupDue>>

\* a complete alert, and one without content and severity
FaultCandidates ==
    { createSystemAlert(<<"Notice">>, "c", "info", << >>),
      [type |-> "system_notification", title |-> <<"Notice">>] }

FaultNext ==
    \/ \E p \in FaultCandidates, r \in RandomValues, stored \in BOOLEAN :
          /\ Len(alerts) < MaxStore
          /\ unreadCount < MaxUnread
          /\ Persisted("add", p, -1, reduceADD_ALERT(State, p, now, r), stored)
    \/ \E id \in StoredIds, stored \in BOOLEAN :
          Persisted("remove", NoPayload, id, reduceREMOVE_ALERT(State, id), stored)
    \/ \E stored \in BOOLEAN :
          Persisted("clear", NoPayload, -1, reduceCLEAR_ALERTS(State), stored)
    \/ \E id \in StoredIds, stored \in BOOLEAN :
          Persisted("markRead", NoPayload, id, reduceMARK_AS_READ(State, id), stored)
    \/ \E stored \in BOOLEAN : LoadPage(stored)
    \/ \E item \in {NoItem, <<Truncated>>} : StorageChanged(item)
    \/ /\ fatal = NoError
       /\ Tick(DedupWindow)
       /\ StoreAlone

SpecFaults == Init /\ [][FaultNext]_vars

(***************************************************************************)
(* SpecSweep: the daily interval followed on the clock.  The clean-up      *)
(* effect depends on state.alerts: every render with a new alerts array    *)
(* runs the effect's clean-up function (clearInterval) and the effect      *)
(* again (setInterval), so the 24 hours are counted from that render.      *)
(***************************************************************************)
\* the reducer returned a new alerts array: filter, map and [] always make
\* one, ADD_ALERT returns the same state for a duplicate
newArray(name, st) ==
    \/ name \in {"remove", "clear", "markRead"}
    \/ name = "add" /\ st # State

\* a store operation, its render and the effects that follow it
Scheduled(name, payload, id, st) ==
    /\ Dispatch(name, payload, id, st)
    /\ cleanupDue' = IF newArray(name, st) THEN setInterval(now) ELSE cleanupDue
    /\ UNCHANGED <<visibleAlerts, timers, observed, fatal>>

\* the interval calls cleanup; the interval goes on when cleanup dispatched
\* nothing and is set again, at the same time, when it did
IntervalFires ==
    /\ now = cleanupDue
    /\ Dispatch("sweep", NoPayload, -1, cleanup(State, now))
    /\ cleanupDue' = setInterval(now)
    /\ UNCHANGED <<visibleAlerts, timers, observed, fatal>>

SweepStep == SecondsPerDay \div 2

\* half a day passes; a due interval fires before the clock moves on
HalfDayPasses ==
    /\ now + SweepStep <= cleanupDue
    /\ now < MaxSweepDays * SecondsPerDay
    /\ Tick(now + SweepStep)
    /\ UNCHANGED <<visibleAlerts, timers, observed, fatal, cleanupDue>>

SweepNext ==
    \/ /\ Len(alerts) < MaxSweepStore
       /\ Scheduled("add", CapCandidate, -1,
                    reduceADD_ALERT(State, CapCandidate, now, 0))
    \/ \E id \in StoredIds :
          Scheduled("remove", NoPayload, id, reduceREMOVE_ALERT(State, id))
    \/ \E id \in StoredIds :
          Scheduled("markRead", NoPayload, id, reduceMARK_AS_READ(State, id))
    \/ IntervalFires
    \/ HalfDayPasses

SpecSweep == Init /\ [][SweepNext]_vars

(***************************************************************************)
(* Properties                                                              *)
(***************************************************************************)
\* number of records of a sequence whose read flag is false, by full recount
Unread(seq) == Cardinality({i \in 1..Len(seq) : ~seq[i].read})

\* C1: in every reachable state unreadCount equals the number of stored
\* records whose read flag is false.
C1_UnreadCountIsRecount == unreadCount = Unread(alerts)

\* C2: in every reachable state the alerts sequence holds at most 100 records.
C2_AtMostMaxAlerts == Len(alerts) <= MAX_ALERTS

\* a full store has just taken one more record
C2_Witness ==
    /\ last.op = "add"
    /\ last.changed
    /\ Len(alerts) = MAX_ALERTS
    /\ now >= MAX_ALERTS * CapStep

\* the stored records that make a candidate a duplicate at time t: same kind,
\* same content, created within the last 60 seconds
IsDuplicateOf(a, cand, t) ==
    /\ a.type = cand.type
    /\ a.content = cand.content
    /\ t - CreatedAt(a) < DedupWindow

HasDuplicate(seq, cand, t) ==
    \E i \in 1..Len(seq) : IsDuplicateOf(seq[i], cand, t)

\* C3: add leaves alerts and unreadCount unchanged when the store holds a
\* record of the same kind and content created within the last 60 seconds,
\* also when that record was created by an add at the same instant.
C3_DuplicateAddChangesNothing ==
    [][(last'.op = "add" /\ HasDuplicate(alerts, last'.payload, now))
          => (alerts' = alerts /\ unreadCount' = unreadCount)]_vars

\* an add was dropped against a record created at this very instant
C3_Witness ==
    /\ last.op = "add"
    /\ ~last.changed
    /\ \E i \in 1..Len(alerts) :
          /\ IsDuplicateOf(alerts[i], last.payload, now)
          /\ CreatedAt(alerts[i]) = now

\* C4: when no stored record of the same kind and content was created within
\* the last 60 seconds, add of a candidate without id, timestamp and read puts
\* exactly one new record at the head, with a fresh id, createdAt = now and
\* read = false, keeps all previous records in order behind it, and raises
\* unreadCount by exactly 1.
C4_AddPrependsFreshRecord ==
    [][(/\ last'.op = "add"
        /\ DOMAIN last'.payload \cap {"id", "timestamp", "read"} = {}
        /\ ~HasDuplicate(alerts, last'.payload, now))
          => (/\ Len(alerts') = Len(alerts) + 1
              /\ alerts'[1].id \notin StoredIds
              /\ CreatedAt(alerts'[1]) = now
              /\ alerts'[1].read = FALSE
              /\ \A f \in DOMAIN last'.payload : alerts'[1][f] = last'.payload[f]
              /\ Tail(alerts') = alerts
              /\ unreadCount' = unreadCount + 1)]_vars

\* C5: when an add brings a consistent store past 100 records and the evicted
\* record was unread, unreadCount afterwards counts only the 100 retained
\* records (101 adds to an empty store leave 100 records and unreadCount 100).
C5_EvictionKeepsRecount ==
    [][(/\ last'.op = "add"
        /\ last'.changed
        /\ Len(alerts) = MAX_ALERTS
        /\ ~alerts[MAX_ALERTS].read
        /\ unreadCount = Unread(alerts))
          => (Len(alerts') = MAX_ALERTS /\ unreadCount' = Unread(alerts'))]_vars

\* C6: an add to a store of 100 records evicts the oldest record, which is the
\* last of the sequence; the other 99 and the new one remain, in order.
C6_EvictsOldest ==
    [][(last'.op = "add" /\ last'.changed /\ Len(alerts) = MAX_ALERTS)
          => (/\ Tail(alerts') = SubSeq(alerts, 1, MAX_ALERTS - 1)
              /\ \A i \in 1..MAX_ALERTS :
                    CreatedAt(alerts[MAX_ALERTS]) <= CreatedAt(alerts[i]))]_vars

\* C7: after a restart alerts equals the persisted sequence and unreadCount
\* equals the number of its records with read = false.
C7_RestartRestores ==
    [][last'.op = "restart"
          => (alerts' = alerts /\ unreadCount' = Unread(alerts'))]_vars

\* a record is older than 30 days at time t
OlderThanRetention(a, t) == t - CreatedAt(a) > RetentionWindow

\* C8: after a retention sweep no record older than 30 days remains.
C8_SweepLeavesNoOldRecord ==
    last.op = "sweep" =>
        \A i \in 1..Len(alerts) : ~OlderThanRetention(alerts[i], now)

\* a sweep has removed a record and kept another
C8_Witness ==
    /\ last.op = "sweep"
    /\ last.changed
    /\ alerts # << >>

\* C9: a sweep leaves every record not older than 30 days in the store,
\* unchanged and in the same relative order, and lowers unreadCount by the
\* number of unread records it removed (stated of a store whose counter was
\* right before the sweep).
C9_SweepKeepsTheRest ==
    [][(last'.op = "sweep" /\ unreadCount = Unread(alerts))
          => LET kept == SelectSeq(alerts,
                             LAMBDA a : ~OlderThanRetention(a, now))
             IN  /\ alerts' = kept
                 /\ unreadCount' = unreadCount - (Unread(alerts) - Unread(kept))]_vars

\* C10: markRead on a present unread record sets read = true and lowers
\* unreadCount by exactly 1; on an already-read or absent id it changes
\* nothing; afterwards no record of that id is unread, so a second call
\* lowers nothing.
C10_MarkReadOnce ==
    [][last'.op = "markRead"
          => LET id == last'.id
                 unreadThere == \E i \in 1..Len(alerts) :
                                   alerts[i].id = id /\ ~alerts[i].read
             IN  /\ unreadThere =>
                       /\ Len(alerts') = Len(alerts)
                       /\ \A i \in 1..Len(alerts) :
                             alerts'[i] = IF alerts[i].id = id
                                          THEN [alerts[i] EXCEPT !.read = TRUE]
                                          ELSE alerts[i]
                       /\ unreadCount' = unreadCount - 1
                 /\ ~unreadThere =>
                       (alerts' = alerts /\ unreadCount' = unreadCount)
                 /\ \A i \in 1..Len(alerts') :
                       alerts'[i].id = id => alerts'[i].read]_vars

\* an unread record has just been marked read
C10_Witness ==
    /\ last.op = "markRead"
    /\ last.changed
    /\ \E i \in 1..Len(alerts) : alerts[i].id = last.id /\ alerts[i].read

\* a sequence without its i-th element
RemoveAt(seq, i) == SubSeq(seq, 1, i - 1) \o SubSeq(seq, i + 1, Len(seq))

\* C11: remove(id) deletes exactly the record with that id when present,
\* leaves all other records and their order unchanged, and lowers unreadCount
\* by 1 if and only if the removed record was unread; remove of an absent id
\* changes neither alerts nor unreadCount.
C11_RemoveDeletesOne ==
    [][last'.op = "remove"
          => LET id == last'.id
                 present == \E i \in 1..Len(alerts) : alerts[i].id = id
             IN  /\ present =>
                       \E i \in 1..Len(alerts) :
                           /\ alerts[i].id = id
                           /\ alerts' = RemoveAt(alerts, i)
                           /\ unreadCount' = IF alerts[i].read THEN unreadCount
                                              ELSE unreadCount - 1
                 /\ ~present =>
                       (alerts' = alerts /\ unreadCount' = unreadCount)]_vars

\* C12: from any reachable state clear() yields an empty alerts sequence and
\* unreadCount = 0.
C12_ClearEmpties ==
    last.op = "clear" => (alerts = << >> /\ unreadCount = 0)

\* a store that held records has just been cleared
C12_Witness ==
    /\ last.op = "clear"
    /\ last.changed
    /\ storage = <<JSONstringify(<< >>)>>

\* C13: no two records in the store ever share the same id.
C13_IdsUnique ==
    \A i, j \in 1..Len(alerts) : i # j => alerts[i].id # alerts[j].id

\* the promotion rule: severity critical or high, or a phishing detection
Urgent(a) ==
    \/ Get(a, "severity") \in {"critical", "high"}
    \/ Get(a, "type") = "phishing_detected"

Shown(a) == \E j \in 1..Len(visibleAlerts) : visibleAlerts[j].id = a.id

\* C14: after every operation an unread record is on the notification surface
\* (an entry of its id is visible) if it is urgent, every entry of the surface
\* is urgent, so a record that is not urgent is never one of them, and such a
\* record, while unread, is in the store and in the unread-only feed.
C14_PromotedIffUrgent ==
    /\ \A i \in 1..Len(alerts) :
          (~alerts[i].read /\ Urgent(alerts[i])) => Shown(alerts[i])
    /\ \A j \in 1..Len(visibleAlerts) : Urgent(visibleAlerts[j])
    /\ \A i \in 1..Len(alerts) :
          (~alerts[i].read /\ ~Urgent(alerts[i])) =>
              /\ alerts[i] \notin Range(visibleAlerts)
              /\ alerts[i] \in Range(filteredAlerts(alerts, "all", TRUE))
              /\ alerts[i] \in Range(filteredAlerts(alerts, "system", TRUE))

\* an unread system notification of severity info is stored beside an urgent
\* record; the urgent one is shown, the other is only in the feed
C14_Witness ==
    /\ Len(alerts) = 2
    /\ Len(visibleAlerts) = 1
    /\ \E i \in 1..2 :
          /\ alerts[i].type = "system_notification"
          /\ alerts[i].severity = "info"
          /\ ~alerts[i].read
          /\ ~Shown(alerts[i])
          /\ alerts[3 - i] = visibleAlerts[1]

\* C15: when the auto-dismiss timeout of a notification fires, the
\* notification is off the surface and the records of its id that are still
\* stored are read.
C15_TimeoutDismisses ==
    [][last'.op = "timeout" =>
          /\ \A j \in 1..Len(visibleAlerts') : visibleAlerts'[j].id # last'.id
          /\ \A i \in 1..Len(alerts') :
                alerts'[i].id = last'.id => alerts'[i].read]_vars

\* C19: no persistence write made during a sweep holds anything but the
\* alerts before the sweep or the alerts after it.
C19_SweepIsAtomic ==
    [][last'.op = "sweep" =>
          \A k \in 1..Len(observed'.writes) :
              observed'.writes[k] \in {JSONstringify(alerts),
                                       JSONstringify(alerts')}]_vars

\* C20: a record that was promoted and dismissed is not promoted again, also
\* not by the effect that runs after the dismissal's own updates.
C20_PromotedOnce ==
    [][\A k \in 1..Len(observed'.promoted) :
          observed'.promoted[k] \notin observed'.dismissed]_vars

\* C16: when the persisted data is absent or cannot be parsed, a reload of
\* the running app yields an empty alerts sequence with unreadCount = 0 and
\* throws no error of its own.
C16_LoadStartsEmpty ==
    [][(/\ last'.op = "restart"
        /\ fatal = NoError
        /\ (storage = NoItem \/ initialStateThrows(storage)))
          => (alerts' = << >> /\ unreadCount' = 0 /\ fatal' # "SyntaxError")]_vars

\* C17: when the write that follows a mutation fails (the stored text is not
\* that of the new alerts), alerts and unreadCount keep the mutated values and
\* the app keeps running.
C17_FailedWriteIsNotFatal ==
    [][(/\ last'.op \in {"add", "remove", "markRead", "clear"}
        /\ storage' # <<JSONstringify(alerts')>>)
          => (/\ fatal' = NoError
              /\ last'.changed =>
                    <<alerts', unreadCount'>> # <<alerts, unreadCount>>)]_vars

\* a candidate has the fields every alert needs
WellFormed(cand) == {"type", "severity", "title", "content"} \subseteq DOMAIN cand

\* C18: add of a candidate that lacks a required field stores nothing and
\* leaves alerts and unreadCount unchanged (seen on adds whose write did not
\* fail).
C18_MalformedAddRejected ==
    [][(last'.op = "add" /\ ~WellFormed(last'.payload) /\ fatal' = NoError)
          => (alerts' = alerts /\ unreadCount' = unreadCount)]_vars

\* C21: after every operation and the effects that follow it, every visible
\* notification's id is the id of a stored record: a notification leaves the
\* surface when its record is removed, cleared, evicted or swept.
C21_VisibleAreStored ==
    \A j \in 1..Len(visibleAlerts) : visibleAlerts[j].id \in StoredIds

\* C22: the surface calls markRead once for a notification: no click and no
\* timeout calls it for a notification that was dismissed, and so marked,
\* before and is no longer shown.
C22_MarkReadCalledOnce ==
    [][(last'.op \in {"dismiss", "timeout"} /\ last'.id \notin VisibleIds)
          => ~(\E d \in observed.dismissed : d.id = last'.id)]_vars

\* C23: a timeout that fires when its notification is no longer shown, or
\* when no record of its id is stored, changes neither the surface, nor a
\* record, nor unreadCount, and raises no error.
C23_LateTimeoutIsNoOp ==
    [][(last'.op = "timeout"
        /\ (last'.id \notin VisibleIds \/ last'.id \notin StoredIds))
          => (/\ visibleAlerts' = visibleAlerts
              /\ alerts' = alerts
              /\ unreadCount' = unreadCount
              /\ fatal' = NoError)]_vars

\* C24: the sound is played once in an operation that promotes a critical
\* alert or a phishing detection, and not at all in any other operation.
C24_CueOncePerPromotion ==
    [][observed'.cues =
          IF \E k \in 1..Len(observed'.promoted) :
                \/ Get(observed'.promoted[k], "severity") = "critical"
                \/ Get(observed'.promoted[k], "type") = "phishing_detected"
          THEN 1 ELSE 0]_vars

\* C25: notifications enter the surface in the order in which their records
\* were added, also when one cycle promotes several (seen at start-up, where
\* the loaded unread records are promoted together): of two records promoted
\* in the cycle, the one shown first is the one added first, which stands
\* later in alerts (alerts is newest first).  Stated of stores whose ids are
\* all different.
C25_ShownInAddOrder ==
    [][(last'.op = "restart" /\ Cardinality(StoredIds) = Len(alerts)) =>
          \A k, l \in 1..Len(observed'.promoted) : \A p, q \in 1..Len(alerts') :
              (/\ k < l
               /\ alerts'[p] = observed'.promoted[k]
               /\ alerts'[q] = observed'.promoted[l]) => p > q]_vars

\* C26: no operation alters a field other than read of a stored record: every
\* record of the store after an operation is a record of the store before it,
\* equal in all fields but read, or it is the record an add has just created
\* from its candidate.
C26_FieldsNeverChange ==
    [][\A q \in 1..Len(alerts') :
          \/ \E p \in 1..Len(alerts) : AsAdded(alerts[p]) = AsAdded(alerts'[q])
          \/ /\ last'.op = "add"
             /\ q = 1
             /\ CreatedAt(alerts'[1]) = now
             /\ \A f \in DOMAIN last'.payload : alerts'[1][f] = last'.payload[f]]_vars

\* a sweep has removed a record and kept an unread one that was added before
\* the sweep's time
C26_Witness ==
    /\ last.op = "sweep"
    /\ last.changed
    /\ \E i \in 1..Len(alerts) : ~alerts[i].read /\ CreatedAt(alerts[i]) < now

\* C27: read is false in the record an add creates, and a record that is read
\* is read in every later state in which it is stored, also after a sweep.
C27_ReadIsMonotonic ==
    [][/\ (last'.op = "add" /\ last'.changed) => ~alerts'[1].read
       /\ \A p \in 1..Len(alerts) : \A q \in 1..Len(alerts') :
             (AsAdded(alerts[p]) = AsAdded(alerts'[q]) /\ alerts[p].read)
                 => alerts'[q].read]_vars

\* a record that was read has come through a sweep and is still read
C27_Witness ==
    /\ last.op = "sweep"
    /\ last.changed
    /\ \E i \in 1..Len(alerts) : alerts[i].read /\ CreatedAt(alerts[i]) < now


\* C28: the sweep runs every 24 hours however often the store is mutated, so
\* a record that has passed the 30 days of retention is gone within the
\* next 24 hours: no stored record is older than 30 days and 24 hours
C28_OldRecordsAreSwept ==
    \A i \in 1..Len(alerts) :
        now - CreatedAt(alerts[i]) <= RetentionWindow + SecondsPerDay


\* C29: after an operation that changed alerts (add, remove, markRead by a
\* call, a dismissal or a timeout, clear, sweep) the stored text is the
\* serialisation of the alerts now in memory, and it is the last text the
\* persist effect wrote during the operation: the write follows the update
C29_StorageIsCurrentAlerts ==
    [][(/\ last'.op \in {"add", "remove", "markRead", "dismiss", "timeout",
                         "clear", "sweep"}
        /\ alerts' # alerts)
          => (/\ storage' = <<JSONstringify(alerts')>>
              /\ observed'.writes # << >>
              /\ observed'.writes[Len(observed'.writes)] = JSONstringify(alerts'))]_vars

\* a sweep that removed a record and kept another has been written, in
\* several steps, and the stored text is that of the survivors
C29_Witness ==
    /\ last.op = "sweep"
    /\ last.changed
    /\ alerts # << >>
    /\ Len(observed.writes) > 1
    /\ storage = <<JSONstringify(alerts)>>


\* C30: the unread counter is never negative, also after a start from a
\* stored sequence that holds unread records
C30_UnreadCountNotNegative == unreadCount >= 0

====
